---------------------------- MODULE Spec2Model ----------------------------
(***************************************************************************)
(* json-subset: the containment checker and diff renderer of diff.go and  *)
(* the command-line driver (run, loadJSON).                                *)
(*                                                                         *)
(* A decoded JSON value (Go interface{}) is a pair <<kind, payload>>:      *)
(*   <<"null", <<>>>>         nil                                          *)
(*   <<"bool", b>>            bool                                         *)
(*   <<"num",  n>>            float64 (integral values only)               *)
(*   <<"str",  s>>            string, s a sequence of characters           *)
(*   <<"obj",  f>>            map[string]interface{}, f a function whose   *)
(*                            domain is the set of keys                    *)
(*   <<"arr",  s>>            []interface{}, s a sequence of values        *)
(* A Go string is a sequence of one-character strings, so that sorting,   *)
(* concatenation and strings.HasPrefix are computed character by          *)
(* character.                                                              *)
(***************************************************************************)
EXTENDS Integers, Sequences, FiniteSets, TLC

VARIABLES
    pc,            \* position of run: "start", "loadSubset", "loadSuperset",
                   \* "check", "report", "exit"
    args,          \* os.Args[1:], a sequence of file names
    stdinDrained,  \* TRUE once io.ReadAll(os.Stdin) has consumed standard input
    subsetData,    \* run's subsetData
    supersetData,  \* run's supersetData
    checked,       \* TRUE once checkSubsetWithDiffs has been called
    isSubset,      \* run's isSubset
    diffs,         \* run's diffs
    rendered,      \* TRUE once FormatDiffOutput has been called
    diffOutput,    \* run's diffOutput: the report, one element per "\n"-ended line
    stdout,        \* what run wrote to stdout, one tag per message
    stderr,        \* what run wrote to stderr, one tag per message
    exitCode       \* run's return value, NoExit while run is running

vars == <<pc, args, stdinDrained, subsetData, supersetData, checked, isSubset,
          diffs, rendered, diffOutput, stdout, stderr, exitCode>>

----------------------------------------------------------------------------
(* Bounds of the model. *)

\* The largest number of nodes (scalars, objects, arrays) of the first document.
MaxSubsetNodes == 4

\* The largest number of nodes of the second document.
MaxSupersetNodes == 3

\* JSON numbers are 1 .. MaxNum.
MaxNum == 2

----------------------------------------------------------------------------
(* Go values. *)

Kind(v) == v[1]
Payload(v) == v[2]

Nil == <<"null", <<>>>>
Bool(b) == <<"bool", b>>
Num(n) == <<"num", n>>
Str(s) == <<"str", s>>
Obj(f) == <<"obj", f>>
Arr(s) == <<"arr", s>>

IsMap(v) == Kind(v) = "obj"
IsArr(v) == Kind(v) = "arr"

\* The object keys of the model; "a" is a proper prefix of "ab".
Keys == { <<"a">>, <<"a", "b">> }

Scalars == {Nil, Bool(TRUE), Str(<<"1">>)} \cup {Num(n) : n \in 1..MaxNum}

\* Byte values of the characters that occur in keys, strings and paths.
CharCode(c) ==
    CASE c = "\"" -> 34 [] c = "$" -> 36 [] c = "'" -> 39
      [] c = "0" -> 48 [] c = "1" -> 49 [] c = "2" -> 50 [] c = "3" -> 51
      [] c = "4" -> 52 [] c = "5" -> 53 [] c = "6" -> 54 [] c = "7" -> 55
      [] c = "8" -> 56 [] c = "9" -> 57
      [] c = "[" -> 91 [] c = "]" -> 93
      [] c = "a" -> 97 [] c = "b" -> 98
      [] OTHER -> 32

\* s < t for Go strings: bytewise lexicographic order.
RECURSIVE StrLess(_, _)
StrLess(s, t) ==
    IF t = <<>> THEN FALSE
    ELSE IF s = <<>> THEN TRUE
    ELSE IF CharCode(Head(s)) # CharCode(Head(t))
         THEN CharCode(Head(s)) < CharCode(Head(t))
    ELSE StrLess(Tail(s), Tail(t))

\* sort.Strings over the keys of a map: the keys in increasing order.
RECURSIVE SortStrings(_)
SortStrings(S) ==
    IF S = {} THEN <<>>
    ELSE LET least == CHOOSE k \in S : \A o \in S \ {k} : StrLess(k, o)
         IN  <<least>> \o SortStrings(S \ {least})

\* strings.HasPrefix(s, prefix)
HasPrefix(s, prefix) ==
    /\ Len(s) >= Len(prefix)
    /\ SubSeq(s, 1, Len(prefix)) = prefix

----------------------------------------------------------------------------
(* The documents of the model: every value of a bounded number of nodes. *)

RECURSIVE ValuesOfSize(_), SeqsOfSize(_), MapsOfSize(_, _)

\* The sequences of values with n nodes in total.
SeqsOfSize(n) ==
    IF n = 0 THEN { <<>> }
    ELSE UNION { { <<v>> \o rest : v \in ValuesOfSize(j), rest \in SeqsOfSize(n - j) }
                 : j \in 1..n }

\* The maps over a subset of the keys ks (a sorted sequence), n nodes in total.
MapsOfSize(ks, n) ==
    IF ks = <<>> THEN (IF n = 0 THEN { <<>> } ELSE {})
    ELSE LET k == Head(ks)
             without == MapsOfSize(Tail(ks), n)
             with == UNION { { [x \in {k} \cup DOMAIN m |-> IF x = k THEN v ELSE m[x]]
                                : v \in ValuesOfSize(j), m \in MapsOfSize(Tail(ks), n - j) }
                             : j \in 1..n }
         IN  without \cup with

ValuesOfSize(n) ==
    IF n = 1
    THEN Scalars \cup { Obj(<<>>), Arr(<<>>) }
    ELSE { Obj(m) : m \in MapsOfSize(SortStrings(Keys), n - 1) }
         \cup { Arr(s) : s \in SeqsOfSize(n - 1) }

ValuesUpTo(n) == UNION { ValuesOfSize(j) : j \in 1..n }

\* The first documents and the second documents of the model.
SubsetValues == ValuesUpTo(MaxSubsetNodes)
SupersetValues == ValuesUpTo(MaxSupersetNodes)

----------------------------------------------------------------------------
(* Paths (spec.NormalizedPath of github.com/theory/jsonpath) and diffs. *)

\* spec.Name(key) and spec.Index(i): the selectors of a normalized path.
Name(key) == <<"name", key>>
Index(i) == <<"index", i>>

EmptyPath == <<>>

\* copyPath: a fresh copy of the path.
copyPath(path) == <<>> \o path

DiffMissingKey == 0
DiffValueMismatch == 1
DiffTypeMismatch == 2
DiffElementNotFound == 3

Diff(path, type, subsetValue, supersetValue) ==
    [Path |-> path, Type |-> type,
     SubsetValue |-> subsetValue, SupersetValue |-> supersetValue]

\* A (bool, []Diff) result.
Result(ok, ds) == [ok |-> ok, diffs |-> ds]

----------------------------------------------------------------------------
(* The containment checker. *)

\* subset == superset on two interface values, subset a scalar: the dynamic
\* types are the same and the values are equal.
InterfaceEq(a, b) ==
    IF Kind(a) = Kind(b) THEN Payload(a) = Payload(b) ELSE FALSE

\* checkScalar without the comparison of line 68: only numbers can be equal.
checkScalar_floatOnly(subset, superset, path) ==
    IF /\ Kind(subset) = "num"
       /\ Kind(superset) = "num"
       /\ Payload(subset) = Payload(superset)
    THEN Result(TRUE, <<>>)
    ELSE Result(FALSE,
                << Diff(copyPath(path), DiffValueMismatch, subset, superset) >>)

\* Lines 68-78: the scalar case of checkSubsetPath.
checkScalar(subset, superset, path) ==
    IF InterfaceEq(subset, superset) THEN Result(TRUE, <<>>)
    ELSE IF /\ Kind(subset) = "num"
            /\ Kind(superset) = "num"
            /\ Payload(subset) = Payload(superset)
         THEN Result(TRUE, <<>>)
    ELSE Result(FALSE,
                << Diff(copyPath(path), DiffValueMismatch, subset, superset) >>)

RECURSIVE checkSubsetPath(_, _, _)
RECURSIVE checkObjectSubset(_, _, _)
RECURSIVE checkArraySubset(_, _, _)
RECURSIVE objectLoop(_, _, _, _, _, _, _)
RECURSIVE arrayFind(_, _, _)
RECURSIVE arrayLoop(_, _, _, _, _, _)

\* checkSubsetPath without the returns of lines 54-59: an object or array
\* whose counterpart has another shape is walked against an empty counterpart.
checkSubsetPath_descend(subset, superset, path) ==
    IF subset = Nil
    THEN IF superset = Nil
         THEN Result(TRUE, <<>>)
         ELSE Result(FALSE,
                     << Diff(copyPath(path), DiffValueMismatch, subset, superset) >>)
    ELSE IF IsMap(subset)
    THEN checkObjectSubset(Payload(subset),
                           IF IsMap(superset) THEN Payload(superset) ELSE <<>>, path)
    ELSE IF IsArr(subset)
    THEN checkArraySubset(Payload(subset),
                          IF IsArr(superset) THEN Payload(superset) ELSE <<>>, path)
    ELSE checkScalar(subset, superset, path)

checkSubsetPath(subset, superset, path) ==
    IF subset = Nil
    THEN IF superset = Nil
         THEN Result(TRUE, <<>>)
         ELSE Result(FALSE,
                     << Diff(copyPath(path), DiffValueMismatch, subset, superset) >>)
    ELSE IF IsMap(subset) /\ ~IsMap(superset)
    THEN Result(FALSE,
                << Diff(copyPath(path), DiffTypeMismatch, subset, superset) >>)
    ELSE IF IsArr(subset) /\ ~IsArr(superset)
    THEN Result(FALSE,
                << Diff(copyPath(path), DiffTypeMismatch, subset, superset) >>)
    ELSE IF IsMap(subset)
    THEN checkObjectSubset(Payload(subset), Payload(superset), path)
    ELSE IF IsArr(subset)
    THEN checkArraySubset(Payload(subset), Payload(superset), path)
    ELSE checkScalar(subset, superset, path)

\* One missing key: the diff appended at line 98.
missingKeyDiff(childPath, subsetValue) ==
    Diff(childPath, DiffMissingKey, subsetValue, Nil)

\* objectLoop that returns at the first missing key instead of continuing.
objectLoop_earlyExit(subset, superset, path, keys, i, ok, ds) ==
    IF i > Len(keys) THEN Result(ok, ds)
    ELSE LET key == keys[i]
             subsetValue == subset[key]
             childPath == Append(copyPath(path), Name(key))
         IN  IF key \notin DOMAIN superset
             THEN Result(FALSE, Append(ds, missingKeyDiff(childPath, subsetValue)))
             ELSE LET child == checkSubsetPath(subsetValue, superset[key], childPath)
                  IN  IF ~child.ok
                      THEN objectLoop(subset, superset, path, keys, i + 1, FALSE,
                                      ds \o child.diffs)
                      ELSE objectLoop(subset, superset, path, keys, i + 1, ok, ds)

\* objectLoop that reports a failed child once more at the child itself, after
\* the differences found below it.
objectLoop_enclosingDiff(subset, superset, path, keys, i, ok, ds) ==
    IF i > Len(keys) THEN Result(ok, ds)
    ELSE LET key == keys[i]
             subsetValue == subset[key]
             childPath == Append(copyPath(path), Name(key))
         IN  IF key \notin DOMAIN superset
             THEN objectLoop(subset, superset, path, keys, i + 1, FALSE,
                             Append(ds, missingKeyDiff(childPath, subsetValue)))
             ELSE LET child == checkSubsetPath(subsetValue, superset[key], childPath)
                  IN  IF ~child.ok
                      THEN objectLoop(subset, superset, path, keys, i + 1, FALSE,
                                      Append(ds \o child.diffs,
                                             Diff(childPath, DiffValueMismatch,
                                                  subsetValue, superset[key])))
                      ELSE objectLoop(subset, superset, path, keys, i + 1, ok, ds)

\* The loop of checkObjectSubset from the i-th sorted key on.
objectLoop(subset, superset, path, keys, i, ok, ds) ==
    IF i > Len(keys) THEN Result(ok, ds)
    ELSE LET key == keys[i]
             subsetValue == subset[key]
             childPath == Append(copyPath(path), Name(key))
         IN  IF key \notin DOMAIN superset
             THEN objectLoop(subset, superset, path, keys, i + 1, FALSE,
                             Append(ds, missingKeyDiff(childPath, subsetValue)))
             ELSE LET child == checkSubsetPath(subsetValue, superset[key], childPath)
                  IN  IF ~child.ok
                      THEN objectLoop(subset, superset, path, keys, i + 1, FALSE,
                                      ds \o child.diffs)
                      ELSE objectLoop(subset, superset, path, keys, i + 1, ok, ds)

\* checkObjectSubset that also refuses a superset with keys of its own.
checkObjectSubset_sameKeys(subset, superset, path) ==
    IF DOMAIN superset \subseteq DOMAIN subset
    THEN objectLoop(subset, superset, path, SortStrings(DOMAIN subset), 1, TRUE, <<>>)
    ELSE Result(FALSE,
                << Diff(copyPath(path), DiffValueMismatch, Obj(subset), Obj(superset)) >>)

\* checkObjectSubset that accepts any subset when the superset has no keys.
checkObjectSubset_emptySuperset(subset, superset, path) ==
    IF DOMAIN superset = {}
    THEN Result(TRUE, <<>>)
    ELSE objectLoop(subset, superset, path, SortStrings(DOMAIN subset), 1, TRUE, <<>>)

checkObjectSubset(subset, superset, path) ==
    objectLoop(subset, superset, path, SortStrings(DOMAIN subset), 1, TRUE, <<>>)

\* The inner loop of checkArraySubset: found, searching superset from index j.
arrayFind(subsetElem, superset, j) ==
    IF j > Len(superset) THEN FALSE
    ELSE IF checkSubsetPath(subsetElem, superset[j], EmptyPath).ok THEN TRUE
    ELSE arrayFind(subsetElem, superset, j + 1)

\* One unmatched element: the diff appended at line 128.
elementNotFoundDiff(childPath, subsetElem) ==
    Diff(childPath, DiffElementNotFound, subsetElem, Nil)

\* arrayLoop that compares each element with the superset element at the same
\* index only.
arrayLoop_positional(subset, superset, path, i, ok, ds) ==
    IF i > Len(subset) THEN Result(ok, ds)
    ELSE IF \/ i > Len(superset)
            \/ ~checkSubsetPath(subset[i], superset[i], EmptyPath).ok
         THEN arrayLoop(subset, superset, path, i + 1, FALSE,
                        Append(ds, elementNotFoundDiff(
                                     Append(copyPath(path), Index(i - 1)), subset[i])))
         ELSE arrayLoop(subset, superset, path, i + 1, ok, ds)

\* arrayLoop that reports the differences of the last failed match attempt
\* instead of one element-not-found.
arrayLoop_attemptDiffs(subset, superset, path, i, ok, ds) ==
    IF i > Len(subset) THEN Result(ok, ds)
    ELSE IF ~arrayFind(subset[i], superset, 1)
         THEN arrayLoop(subset, superset, path, i + 1, FALSE,
                        IF superset = <<>>
                        THEN Append(ds, elementNotFoundDiff(
                                          Append(copyPath(path), Index(i - 1)), subset[i]))
                        ELSE ds \o checkSubsetPath(subset[i], superset[Len(superset)],
                                                   Append(copyPath(path), Index(i - 1))).diffs)
         ELSE arrayLoop(subset, superset, path, i + 1, ok, ds)

\* arrayLoop that clears isSubset for an unmatched element and appends nothing.
arrayLoop_noDiff(subset, superset, path, i, ok, ds) ==
    IF i > Len(subset) THEN Result(ok, ds)
    ELSE IF ~arrayFind(subset[i], superset, 1)
         THEN arrayLoop(subset, superset, path, i + 1, FALSE, ds)
         ELSE arrayLoop(subset, superset, path, i + 1, ok, ds)

\* The outer loop of checkArraySubset from index i (1-based; Go's index is i - 1).
arrayLoop(subset, superset, path, i, ok, ds) ==
    IF i > Len(subset) THEN Result(ok, ds)
    ELSE IF ~arrayFind(subset[i], superset, 1)
         THEN arrayLoop(subset, superset, path, i + 1, FALSE,
                        Append(ds, elementNotFoundDiff(
                                     Append(copyPath(path), Index(i - 1)), subset[i])))
         ELSE arrayLoop(subset, superset, path, i + 1, ok, ds)

checkArraySubset(subset, superset, path) ==
    arrayLoop(subset, superset, path, 1, TRUE, <<>>)

checkSubsetWithDiffs(subset, superset) ==
    checkSubsetPath(subset, superset, EmptyPath)

----------------------------------------------------------------------------
(* The diff renderer. *)

\* strconv of a non-negative integer: its decimal digits.
Digit(d) == CASE d = 0 -> "0" [] d = 1 -> "1" [] d = 2 -> "2" [] d = 3 -> "3"
              [] d = 4 -> "4" [] d = 5 -> "5" [] d = 6 -> "6" [] d = 7 -> "7"
              [] d = 8 -> "8" [] OTHER -> "9"

RECURSIVE Itoa(_)
Itoa(n) == IF n < 10 THEN << Digit(n) >> ELSE Itoa(n \div 10) \o << Digit(n % 10) >>

\* SelectorString in dot notation for names: .a, [0].
SelectorString_dot(sel) ==
    IF sel[1] = "name"
    THEN <<".">> \o sel[2]
    ELSE <<"[">> \o Itoa(sel[2]) \o <<"]">>

\* One selector of spec.NormalizedPath.String(): the bracket notation of
\* RFC 9535, ['name'] for a name and [i] for an index.  The keys of the model
\* hold no character that the notation escapes.
SelectorString(sel) ==
    IF sel[1] = "name"
    THEN <<"[", "'">> \o sel[2] \o <<"'", "]">>
    ELSE <<"[">> \o Itoa(sel[2]) \o <<"]">>

\* spec.NormalizedPath.String(): "$" followed by the selectors.
RECURSIVE PathString(_)
PathString(path) ==
    IF path = <<>> THEN <<"$">>
    ELSE PathString(SubSeq(path, 1, Len(path) - 1)) \o SelectorString(path[Len(path)])

\* A Line{Content, Path}.
Line(content, path) == [Content |-> content, Path |-> path]

\* strings.Repeat("  ", indent)
RECURSIVE IndentStr(_)
IndentStr(indent) == IF indent = 0 THEN <<>> ELSE <<" ", " ">> \o IndentStr(indent - 1)

\* fmt.Sprintf("%q", s) for a string of the model's characters.
Quote(s) == <<"\"">> \o s \o <<"\"">>

formatPrimitive(value) ==
    CASE Kind(value) = "str" -> Quote(Payload(value))
      [] Kind(value) = "num" -> Itoa(Payload(value))
      [] Kind(value) = "bool" ->
           IF Payload(value) THEN <<"t", "r", "u", "e">> ELSE <<"f", "a", "l", "s", "e">>
      [] OTHER -> <<"n", "u", "l", "l">>

\* The concatenation of a sequence of sequences.
RECURSIVE Flatten(_)
Flatten(ss) == IF ss = <<>> THEN <<>> ELSE Head(ss) \o Flatten(Tail(ss))

\* childLines[lastIdx].Content += comma, when childLines is not empty.
addComma(childLines, comma) ==
    IF Len(childLines) > 0
    THEN [childLines EXCEPT ![Len(childLines)].Content = @ \o comma]
    ELSE childLines

\* comma := ","; if i == len-1 { comma = "" }   (i is 1-based here)
commaAt(i, n) == IF i = n THEN <<>> ELSE <<",">>

RECURSIVE generateLines(_, _, _)
RECURSIVE generateObjectLines(_, _, _)
RECURSIVE generateArrayLines(_, _, _)
RECURSIVE generateKeyValueLines(_, _, _, _, _)

generateLines(value, path, indent) ==
    IF IsMap(value) THEN generateObjectLines(Payload(value), path, indent)
    ELSE IF IsArr(value) THEN generateArrayLines(Payload(value), path, indent)
    ELSE << Line(IndentStr(indent) \o formatPrimitive(value), copyPath(path)) >>

generateObjectLines(obj, path, indent) ==
    LET keys == SortStrings(DOMAIN obj)
        children == [i \in 1..Len(keys) |->
                       generateKeyValueLines(keys[i], obj[keys[i]],
                                             Append(copyPath(path), Name(keys[i])),
                                             indent + 1, commaAt(i, Len(keys)))]
    IN  << Line(IndentStr(indent) \o <<"{">>, copyPath(path)) >>
        \o Flatten(children)
        \o << Line(IndentStr(indent) \o <<"}">>, copyPath(path)) >>

\* generateArrayLines that numbers the elements from 1.
generateArrayLines_fromOne(arr, path, indent) ==
    LET children == [i \in 1..Len(arr) |->
                       addComma(generateLines(arr[i],
                                              Append(copyPath(path), Index(i)),
                                              indent + 1),
                                commaAt(i, Len(arr)))]
    IN  << Line(IndentStr(indent) \o <<"[">>, copyPath(path)) >>
        \o Flatten(children)
        \o << Line(IndentStr(indent) \o <<"]">>, copyPath(path)) >>

generateArrayLines(arr, path, indent) ==
    LET children == [i \in 1..Len(arr) |->
                       addComma(generateLines(arr[i],
                                              Append(copyPath(path), Index(i - 1)),
                                              indent + 1),
                                commaAt(i, Len(arr)))]
    IN  << Line(IndentStr(indent) \o <<"[">>, copyPath(path)) >>
        \o Flatten(children)
        \o << Line(IndentStr(indent) \o <<"]">>, copyPath(path)) >>

generateKeyValueLines(key, value, path, indent, comma) ==
    IF IsMap(value)
    THEN LET v == Payload(value)
             keys == SortStrings(DOMAIN v)
             children == [i \in 1..Len(keys) |->
                            generateKeyValueLines(keys[i], v[keys[i]],
                                                  Append(copyPath(path), Name(keys[i])),
                                                  indent + 1, commaAt(i, Len(keys)))]
         IN  << Line(IndentStr(indent) \o Quote(key) \o <<":", " ", "{">>,
                     copyPath(path)) >>
             \o Flatten(children)
             \o << Line(IndentStr(indent) \o <<"}">> \o comma, copyPath(path)) >>
    ELSE IF IsArr(value)
    THEN LET v == Payload(value)
             children == [i \in 1..Len(v) |->
                            addComma(generateLines(v[i],
                                                   Append(copyPath(path), Index(i - 1)),
                                                   indent + 1),
                                     commaAt(i, Len(v)))]
         IN  << Line(IndentStr(indent) \o Quote(key) \o <<":", " ", "[">>,
                     copyPath(path)) >>
             \o Flatten(children)
             \o << Line(IndentStr(indent) \o <<"]">> \o comma, copyPath(path)) >>
    ELSE << Line(IndentStr(indent) \o Quote(key) \o <<":", " ">>
                   \o formatPrimitive(value) \o comma,
                 copyPath(path)) >>

\* shouldMarkAsDiff with the arguments of strings.HasPrefix exchanged: a diff
\* path strictly extends the line's path string.
shouldMarkAsDiff_ancestors(path, diffPaths) ==
    LET pathStr == PathString(path)
    IN  \/ pathStr \in diffPaths
        \/ \E diffPath \in diffPaths :
             HasPrefix(diffPath, pathStr) /\ Len(diffPath) > Len(pathStr)

\* shouldMarkAsDiff without the loop of lines 320-324: exact matches only.
shouldMarkAsDiff_exact(path, diffPaths) ==
    PathString(path) \in diffPaths

\* shouldMarkAsDiff: the line's path string is a diff path, or strictly extends one.
shouldMarkAsDiff(path, diffPaths) ==
    LET pathStr == PathString(path)
    IN  \/ pathStr \in diffPaths
        \/ \E diffPath \in diffPaths :
             HasPrefix(pathStr, diffPath) /\ Len(pathStr) > Len(diffPath)

\* formatOutput: the output string, as the sequence of its "\n"-ended lines.
formatOutput(lines, diffPaths) ==
    [i \in 1..Len(lines) |->
       (IF shouldMarkAsDiff(lines[i].Path, diffPaths) THEN <<"-">> ELSE <<" ">>)
       \o lines[i].Content]

FormatDiffOutput(subset, ds) ==
    LET diffPaths == { PathString(ds[i].Path) : i \in 1..Len(ds) }
        lines == generateLines(subset, EmptyPath, 0)
    IN  formatOutput(lines, diffPaths)

----------------------------------------------------------------------------
(* The driver: run and loadJSON. *)

exitSuccess == 0
exitFailure == 1
exitError == 2

\* run has not returned.
NoExit == 0 - 1

\* The command lines of the model: no, one, two and three arguments;
\* "-" names standard input.
ArgLists == { <<>>, <<"f">>, <<"f", "g">>, <<"-", "-">>, <<"f", "g", "h">> }

\* What a read of a file or of fresh standard input can give: a read error,
\* bytes that are not JSON, or the text of a document.
ReadError == [err |-> "read"]
BadBytes == [err |-> "none", json |-> FALSE]
TextOf(v) == [err |-> "none", json |-> TRUE, value |-> v]
NoBytes == BadBytes

\* json.Unmarshal(data, &result): (result, err).
Unmarshal(data) ==
    IF data.json THEN [value |-> data.value, err |-> FALSE]
    ELSE [value |-> Nil, err |-> TRUE]

\* loadJSON(filename) when the read gives `read`: (result, err).
loadJSON(read) ==
    IF read.err # "none" THEN [value |-> Nil, err |-> TRUE]
    ELSE LET r == Unmarshal(read)
         IN  IF r.err THEN [value |-> Nil, err |-> TRUE]
             ELSE [value |-> r.value, err |-> FALSE]

\* The reads the environment can answer to loadJSON(filename).
Reads(filename, drained, documents) ==
    IF filename = "-" /\ drained
    THEN { NoBytes }
    ELSE { ReadError, BadBytes } \cup { TextOf(v) : v \in documents }

Init ==
    /\ pc = "start"
    /\ args \in ArgLists
    /\ stdinDrained = FALSE
    /\ subsetData = Nil
    /\ supersetData = Nil
    /\ checked = FALSE
    /\ isSubset = FALSE
    /\ diffs = <<>>
    /\ rendered = FALSE
    /\ diffOutput = <<>>
    /\ stdout = <<>>
    /\ stderr = <<>>
    /\ exitCode = NoExit

\* Lines 21-29 of run: the argument count.
RunArgs ==
    /\ pc = "start"
    /\ IF Len(args) # 2
       THEN /\ stderr' = stderr \o <<"usage">>
            /\ exitCode' = exitError
            /\ pc' = "exit"
       ELSE /\ pc' = "loadSubset"
            /\ UNCHANGED <<stderr, exitCode>>
    /\ UNCHANGED <<args, stdinDrained, subsetData, supersetData, checked,
                   isSubset, diffs, rendered, diffOutput, stdout>>

\* Lines 31-35 of run: load the first document.
RunLoadSubset ==
    /\ pc = "loadSubset"
    /\ \E read \in Reads(args[1], stdinDrained, SubsetValues) :
         LET r == loadJSON(read)
         IN  /\ stdinDrained' = (stdinDrained \/ args[1] = "-")
             /\ IF r.err
                THEN /\ stderr' = stderr \o <<"error loading subset">>
                     /\ exitCode' = exitError
                     /\ pc' = "exit"
                     /\ UNCHANGED subsetData
                ELSE /\ subsetData' = r.value
                     /\ pc' = "loadSuperset"
                     /\ UNCHANGED <<stderr, exitCode>>
    /\ UNCHANGED <<args, supersetData, checked, isSubset, diffs, rendered,
                   diffOutput, stdout>>

\* Lines 37-41 of run: load the second document.
RunLoadSuperset ==
    /\ pc = "loadSuperset"
    /\ \E read \in Reads(args[2], stdinDrained, SupersetValues) :
         LET r == loadJSON(read)
         IN  /\ stdinDrained' = (stdinDrained \/ args[2] = "-")
             /\ IF r.err
                THEN /\ stderr' = stderr \o <<"error loading superset">>
                     /\ exitCode' = exitError
                     /\ pc' = "exit"
                     /\ UNCHANGED supersetData
                ELSE /\ supersetData' = r.value
                     /\ pc' = "check"
                     /\ UNCHANGED <<stderr, exitCode>>
    /\ UNCHANGED <<args, subsetData, checked, isSubset, diffs, rendered,
                   diffOutput, stdout>>

\* Lines 43-48 of run: the check, and the report of success.
RunCheck ==
    /\ pc = "check"
    /\ LET r == checkSubsetWithDiffs(subsetData, supersetData)
       IN  /\ checked' = TRUE
           /\ isSubset' = r.ok
           /\ diffs' = r.diffs
           /\ IF r.ok
              THEN /\ stdout' = stdout \o <<"OK">>
                   /\ exitCode' = exitSuccess
                   /\ pc' = "exit"
              ELSE /\ pc' = "report"
                   /\ UNCHANGED <<stdout, exitCode>>
    /\ UNCHANGED <<args, stdinDrained, subsetData, supersetData, rendered,
                   diffOutput, stderr>>

\* RunReport that returns exitError.
RunReport_exitError ==
    /\ pc = "report"
    /\ rendered' = TRUE
    /\ diffOutput' = FormatDiffOutput(subsetData, diffs)
    /\ stderr' = stderr \o <<"FAIL", "", "diffOutput">>
    /\ exitCode' = exitError
    /\ pc' = "exit"
    /\ UNCHANGED <<args, stdinDrained, subsetData, supersetData, checked,
                   isSubset, diffs, stdout>>

\* Lines 50-54 of run: the report of failure.
RunReport ==
    /\ pc = "report"
    /\ rendered' = TRUE
    /\ diffOutput' = FormatDiffOutput(subsetData, diffs)
    /\ stderr' = stderr \o <<"FAIL", "", "diffOutput">>
    /\ exitCode' = exitFailure
    /\ pc' = "exit"
    /\ UNCHANGED <<args, stdinDrained, subsetData, supersetData, checked,
                   isSubset, diffs, stdout>>

Next ==
    \/ RunArgs
    \/ RunLoadSubset
    \/ RunLoadSuperset
    \/ RunCheck
    \/ RunReport

Spec == Init /\ [][Next]_vars

----------------------------------------------------------------------------
(* Vocabulary of the properties. *)

\* Path p is q or an ancestor of q, selector by selector.
IsPrefix(p, q) == Len(p) <= Len(q) /\ SubSeq(q, 1, Len(p)) = p

\* Path p is a strict ancestor of q.
IsAncestor(p, q) == IsPrefix(p, q) /\ Len(p) < Len(q)

\* Containment as section 4.1 of the specification defines it.
RECURSIVE Contained(_, _)
Contained(a, b) ==
    IF a = Nil THEN b = Nil
    ELSE IF IsMap(a)
    THEN IF IsMap(b)
         THEN \A k \in DOMAIN Payload(a) :
                IF k \in DOMAIN Payload(b)
                THEN Contained(Payload(a)[k], Payload(b)[k])
                ELSE FALSE
         ELSE FALSE
    ELSE IF IsArr(a)
    THEN IF IsArr(b)
         THEN \A i \in 1..Len(Payload(a)) :
                \E j \in 1..Len(Payload(b)) : Contained(Payload(a)[i], Payload(b)[j])
         ELSE FALSE
    ELSE InterfaceEq(a, b)

\* The pairs of nodes the two documents hold at the same path: the root, and
\* below two objects the values of every key both have.
RECURSIVE SamePath(_, _, _)
SamePath(s, t, path) ==
    { [path |-> path, sub |-> s, sup |-> t] }
    \cup (IF IsMap(s) /\ IsMap(t)
          THEN UNION { SamePath(Payload(s)[k], Payload(t)[k], Append(path, Name(k)))
                       : k \in DOMAIN Payload(s) \cap DOMAIN Payload(t) }
          ELSE {})

Nodes == SamePath(subsetData, supersetData, EmptyPath)

\* The differences of ds at path or below it, in order.
RECURSIVE DiffsUnder(_, _)
DiffsUnder(ds, path) ==
    IF ds = <<>> THEN <<>>
    ELSE (IF IsPrefix(path, Head(ds).Path) THEN << Head(ds) >> ELSE <<>>)
         \o DiffsUnder(Tail(ds), path)

\* The lines FormatDiffOutput renders from the first document.
Lines == generateLines(subsetData, EmptyPath, 0)

\* Line i of the report is marked.
Marked(i) == Head(diffOutput[i]) = "-"

DiffPathSet == { diffs[i].Path : i \in 1..Len(diffs) }

----------------------------------------------------------------------------
(* C1 *)

\* C1 (reflexivity): when the two documents are the same value, the check
\* returns true and no difference.
C1_Reflexive ==
    (checked /\ subsetData = supersetData) => (isSubset /\ diffs = <<>>)

\* A document with a non-empty array or object inside an object or array has
\* been checked against itself.
C1_Witness ==
    /\ checked
    /\ subsetData = supersetData
    /\ \/ /\ IsMap(subsetData)
          /\ \E k \in DOMAIN Payload(subsetData) :
               LET v == Payload(subsetData)[k]
               IN  (IsArr(v) \/ IsMap(v)) /\ Payload(v) # <<>>
       \/ /\ IsArr(subsetData)
          /\ \E i \in 1..Len(Payload(subsetData)) :
               LET v == Payload(subsetData)[i]
               IN  (IsArr(v) \/ IsMap(v)) /\ Payload(v) # <<>>

----------------------------------------------------------------------------
(* C2 *)

\* The values a grown superset gains.
Gained == ValuesOfSize(1)

\* s with v inserted before position i (i = Len(s) + 1 appends).
InsertAt(s, i, v) == SubSeq(s, 1, i - 1) \o <<v>> \o SubSeq(s, i, Len(s))

\* The values obtained from b by adding one key to an object of b or inserting
\* one element into an array of b, at the root or at any nested position.
RECURSIVE Grow(_)
Grow(b) ==
    IF IsMap(b)
    THEN LET m == Payload(b)
         IN  { Obj([x \in DOMAIN m \cup {k} |-> IF x = k THEN v ELSE m[x]])
                 : k \in Keys \ DOMAIN m, v \in Gained }
             \cup UNION { { Obj([m EXCEPT ![k] = g]) : g \in Grow(m[k]) }
                          : k \in DOMAIN m }
    ELSE IF IsArr(b)
    THEN LET e == Payload(b)
         IN  { Arr(InsertAt(e, i, v)) : i \in 1..(Len(e) + 1), v \in Gained }
             \cup UNION { { Arr([e EXCEPT ![i] = g]) : g \in Grow(e[i]) }
                          : i \in 1..Len(e) }
    ELSE {}

\* C2 (monotonicity): when the check is true, it is still true, with no
\* difference, against every superset grown by a key or an element anywhere.
C2_Monotone ==
    (checked /\ isSubset) =>
        \A b2 \in Grow(supersetData) :
            checkSubsetWithDiffs(subsetData, b2) = Result(TRUE, <<>>)

\* A true check of a nested, non-empty subset whose superset can grow at a
\* nested position.
C2_Witness ==
    /\ checked
    /\ isSubset
    /\ \/ /\ IsMap(subsetData)
          /\ \E k \in DOMAIN Payload(subsetData) :
               /\ Payload(Payload(subsetData)[k]) # <<>>
               /\ Grow(Payload(supersetData)[k]) # {}
       \/ /\ IsArr(subsetData)
          /\ \E i \in 1..Len(Payload(subsetData)) :
               /\ Payload(Payload(subsetData)[i]) # <<>>
               /\ \E j \in 1..Len(Payload(supersetData)) :
                    Grow(Payload(supersetData)[j]) # {}

----------------------------------------------------------------------------
(* C3 *)

\* The arrays with the elements of arr in every order.
Permuted(arr) ==
    LET e == Payload(arr)
    IN  { Arr([i \in 1..Len(e) |-> e[f[i]]]) : f \in Permutations(1..Len(e)) }

\* A difference without the superset value it carries.
Sides(d) == [Path |-> d.Path, Type |-> d.Type, SubsetValue |-> d.SubsetValue]
SidesOf(ds) == [i \in 1..Len(ds) |-> Sides(ds[i])]

\* C3 as stated (array permutation invariance): against every permutation of
\* a superset array the check returns the same verdict and the same
\* difference list.
C3_PermutationSameResult ==
    (checked /\ IsArr(supersetData)) =>
        \A p \in Permuted(supersetData) :
            checkSubsetWithDiffs(subsetData, p) = Result(isSubset, diffs)

\* C3 amended: against every permutation of a superset array the check
\* returns the same verdict and differences with the same paths, kinds and
\* subset values, and the very same list when the subset is an array too; a
\* subset that is not an array yields one difference that carries the
\* superset array in the order given.
C3_PermutationInvariant ==
    (checked /\ IsArr(supersetData)) =>
        \A p \in Permuted(supersetData) :
            LET r == checkSubsetWithDiffs(subsetData, p)
            IN  /\ r.ok = isSubset
                /\ SidesOf(r.diffs) = SidesOf(diffs)
                /\ IsArr(subsetData) => r.diffs = diffs
                /\ ~IsArr(subsetData) =>
                     /\ Len(r.diffs) = 1
                     /\ r.diffs[1].SupersetValue = p

\* A subset array has been checked against a superset array that holds its
\* two distinct elements in the opposite order.
C3_Witness ==
    /\ checked
    /\ IsArr(subsetData) /\ IsArr(supersetData)
    /\ Len(Payload(subsetData)) = 2 /\ Len(Payload(supersetData)) = 2
    /\ Payload(subsetData)[1] # Payload(subsetData)[2]
    /\ Payload(subsetData)[1] = Payload(supersetData)[2]
    /\ Payload(subsetData)[2] = Payload(supersetData)[1]
    /\ isSubset

----------------------------------------------------------------------------
(* C4 *)

IsTypedScalar(v) == Kind(v) \in {"bool", "num", "str"}

\* C4 (scalar kind distinction): a difference between two scalars of
\* different dynamic types is a type-mismatch, and a value-mismatch is
\* recorded only between two scalars of the same type.
C4_ScalarTypeMismatch ==
    checked =>
        \A i \in 1..Len(diffs) :
            LET d == diffs[i]
            IN  /\ ( /\ IsTypedScalar(d.SubsetValue)
                     /\ IsTypedScalar(d.SupersetValue)
                     /\ Kind(d.SubsetValue) # Kind(d.SupersetValue) )
                   => d.Type = DiffTypeMismatch
                /\ ( /\ d.Type = DiffValueMismatch
                     /\ IsTypedScalar(d.SubsetValue)
                     /\ IsTypedScalar(d.SupersetValue) )
                   => Kind(d.SubsetValue) = Kind(d.SupersetValue)

----------------------------------------------------------------------------
(* C5 *)

\* C5 as stated (ancestor marking): a line of the report is marked if and
\* only if its path is the path of a difference or an ancestor of one.
C5_AncestorMarking ==
    rendered =>
        LET lines == Lines
            paths == DiffPathSet
        IN  /\ Len(diffOutput) = Len(lines)
            /\ \A i \in 1..Len(lines) :
                 Marked(i) <=> \E p \in paths : IsPrefix(lines[i].Path, p)

\* C5 amended: a line of the report is marked if and only if its path is
\* the path of a difference or lies below one; the lines of the ancestors
\* of a difference are not marked.
C5_DescendantMarking ==
    rendered =>
        LET lines == Lines
            paths == DiffPathSet
        IN  /\ Len(diffOutput) = Len(lines)
            /\ \A i \in 1..Len(lines) :
                 Marked(i) <=> \E p \in paths : IsPrefix(p, lines[i].Path)

\* The shape of scenario 5: a report with the marked line of a missing key,
\* the unmarked lines of the enclosing object (not the root) and the
\* unmarked line of a sibling key that has no difference.
C5_Witness ==
    /\ rendered
    /\ LET lines == Lines
           paths == DiffPathSet
       IN  \E i, j, k \in 1..Len(lines) :
             /\ Marked(i)
             /\ lines[i].Path \in paths
             /\ ~Marked(j)
             /\ Len(lines[j].Path) = 1
             /\ IsAncestor(lines[j].Path, lines[i].Path)
             /\ ~Marked(k)
             /\ Len(lines[k].Path) = 2
             /\ IsAncestor(lines[j].Path, lines[k].Path)
             /\ \A p \in paths : ~IsPrefix(p, lines[k].Path) /\ ~IsPrefix(lines[k].Path, p)

----------------------------------------------------------------------------
(* C6 *)

IsCompound(v) == IsMap(v) \/ IsArr(v)

\* C6 (subtree marking of the README): every line of the subtree rooted at a
\* difference's path (its own line or, for an object or array, its opening
\* and closing lines, and every line below) starts with "-"; the lines of
\* the difference's ancestors and the lines unrelated to any difference
\* start with a space.
C6_SubtreeMarking ==
    rendered =>
        LET lines == Lines
            paths == DiffPathSet
            At(q) == { i \in 1..Len(lines) : lines[i].Path = q }
        IN  /\ Len(diffOutput) = Len(lines)
            /\ \A n \in 1..Len(diffs) :
                 LET d == diffs[n]
                 IN  /\ Cardinality(At(d.Path)) = (IF IsCompound(d.SubsetValue) THEN 2 ELSE 1)
                     /\ \A i \in 1..Len(lines) :
                          /\ IsPrefix(d.Path, lines[i].Path)
                               => diffOutput[i] = <<"-">> \o lines[i].Content
                          /\ IsAncestor(lines[i].Path, d.Path)
                               => diffOutput[i] = <<" ">> \o lines[i].Content
            /\ \A i \in 1..Len(lines) :
                 (\A q \in paths : ~IsPrefix(q, lines[i].Path))
                     => diffOutput[i] = <<" ">> \o lines[i].Content

\* A report of a difference at a nested path whose subset value is a
\* non-empty object or array: lines below the difference, a closing line,
\* and an enclosing object that is not the root.
C6_Witness ==
    /\ rendered
    /\ \E n \in 1..Len(diffs) :
         /\ Len(diffs[n].Path) = 2
         /\ IsCompound(diffs[n].SubsetValue)
         /\ Payload(diffs[n].SubsetValue) # <<>>

----------------------------------------------------------------------------
(* C7 *)

ShapeMismatch(n) ==
    \/ IsMap(n.sub) /\ ~IsMap(n.sup)
    \/ IsArr(n.sub) /\ ~IsArr(n.sup)

\* C7 (type-mismatch short-circuit): where the subset node is an object and
\* the superset node at the same path is not (or an array and not an array),
\* the differences at or below that path are exactly one, a type-mismatch at
\* that path.
C7_TypeMismatchOnce ==
    checked =>
        \A n \in Nodes :
            ShapeMismatch(n) =>
                LET under == DiffsUnder(diffs, n.path)
                IN  /\ Len(under) = 1
                    /\ under[1].Type = DiffTypeMismatch
                    /\ under[1].Path = n.path
                    /\ ~isSubset

\* Below the root, a subset object or array of two entries has been checked
\* against a superset node of another shape.
C7_Witness ==
    /\ checked
    /\ \E n \in Nodes :
         /\ ShapeMismatch(n)
         /\ n.path # EmptyPath
         /\ IF IsMap(n.sub) THEN Cardinality(DOMAIN Payload(n.sub)) = 2
                            ELSE Len(Payload(n.sub)) = 2

----------------------------------------------------------------------------
(* C8 *)

\* C8 (missing key reporting): where both nodes are objects, every subset
\* key the superset lacks yields exactly one difference, a missing-key at
\* the path extended by the key, and the verdict is false; every other
\* subset key is still checked, whatever keys are missing before it.
C8_MissingKey ==
    checked =>
        \A n \in Nodes :
            (IsMap(n.sub) /\ IsMap(n.sup)) =>
                \A k \in DOMAIN Payload(n.sub) :
                    LET childPath == Append(n.path, Name(k))
                        under == DiffsUnder(diffs, childPath)
                    IN  IF k \notin DOMAIN Payload(n.sup)
                        THEN /\ under = << Diff(childPath, DiffMissingKey,
                                                Payload(n.sub)[k], Nil) >>
                             /\ ~isSubset
                        ELSE (under # <<>>) <=>
                                 ~Contained(Payload(n.sub)[k], Payload(n.sup)[k])

\* Two objects have been checked where the subset's first key is missing
\* from the superset and its second key holds a value the superset's does
\* not contain.
C8_Witness ==
    /\ checked
    /\ \E n \in Nodes :
         /\ IsMap(n.sub) /\ IsMap(n.sup)
         /\ DOMAIN Payload(n.sub) = Keys
         /\ DOMAIN Payload(n.sup) = { <<"a", "b">> }
         /\ ~Contained(Payload(n.sub)[<<"a", "b">>], Payload(n.sup)[<<"a", "b">>])
         /\ Len(DiffsUnder(diffs, n.path)) = 2

----------------------------------------------------------------------------
(* C9 *)

\* C9 (element-not-found reporting): where both nodes are arrays, the
\* differences at or below the array are exactly one element-not-found per
\* subset element that no superset element contains, in index order, at the
\* array's path extended by the index, with the subset element and no
\* superset value; nothing of the failed match attempts is in the list.
C9_ElementNotFound ==
    checked =>
        \A n \in Nodes :
            (IsArr(n.sub) /\ IsArr(n.sup)) =>
                LET sub == Payload(n.sub)
                    sup == Payload(n.sup)
                    Unmatched(i) == \A j \in 1..Len(sup) : ~Contained(sub[i], sup[j])
                    under == DiffsUnder(diffs, n.path)
                IN  /\ \A i \in 1..Len(sub) :
                         LET childPath == Append(n.path, Index(i - 1))
                         IN  DiffsUnder(diffs, childPath) =
                                 IF Unmatched(i)
                                 THEN << Diff(childPath, DiffElementNotFound, sub[i], Nil) >>
                                 ELSE <<>>
                    /\ Len(under) = Cardinality({ i \in 1..Len(sub) : Unmatched(i) })
                    /\ \A x \in 1..Len(under) :
                         /\ under[x].Type = DiffElementNotFound
                         /\ Len(under[x].Path) = Len(n.path) + 1

\* An array has been checked whose element, an object, shares a key with an
\* object of the superset array but is contained in none of its elements.
C9_Witness ==
    /\ checked
    /\ \E n \in Nodes :
         /\ IsArr(n.sub) /\ IsArr(n.sup)
         /\ \E i \in 1..Len(Payload(n.sub)) :
              /\ IsMap(Payload(n.sub)[i])
              /\ \E j \in 1..Len(Payload(n.sup)) :
                   /\ IsMap(Payload(n.sup)[j])
                   /\ DOMAIN Payload(Payload(n.sub)[i])
                        \cap DOMAIN Payload(Payload(n.sup)[j]) # {}
              /\ \A j \in 1..Len(Payload(n.sup)) :
                   ~Contained(Payload(n.sub)[i], Payload(n.sup)[j])

----------------------------------------------------------------------------
(* C10 *)

LoadFailed ==
    \E i \in 1..Len(stderr) :
        stderr[i] \in {"error loading subset", "error loading superset"}

\* C10 (driver exit codes): run returns 0 exactly when both documents load
\* and the first is contained in the second, 1 exactly when both load and it
\* is not, and only then is the report rendered and written; it returns 2
\* when the argument count is not two or a document fails to load, and then
\* the check is never performed.
C10_ExitCodes ==
    /\ rendered => (checked /\ ~isSubset)
    /\ checked => (Len(args) = 2 /\ ~LoadFailed)
    /\ checked => (isSubset <=> Contained(subsetData, supersetData))
    /\ (pc = "exit") =>
         /\ exitCode \in {exitSuccess, exitFailure, exitError}
         /\ (exitCode = exitSuccess) <=> (checked /\ isSubset)
         /\ (exitCode = exitFailure) <=> (checked /\ ~isSubset)
         /\ (exitCode = exitFailure) <=> rendered
         /\ rendered <=> (\E i \in 1..Len(stderr) : stderr[i] = "diffOutput")
         /\ rendered => diffOutput = FormatDiffOutput(subsetData, diffs)
         /\ (exitCode = exitError) <=> (Len(args) # 2 \/ LoadFailed)
         /\ (exitCode = exitError) => ~checked
    /\ (pc # "exit") => exitCode = NoExit

\* run has returned 1 after writing a report with a marked line.
C10_Witness ==
    /\ pc = "exit"
    /\ exitCode = exitFailure
    /\ rendered
    /\ \E i \in 1..Len(diffOutput) : Marked(i)

----------------------------------------------------------------------------
(* C11 *)

\* The calls of checkSubsetPath that one check of s against t makes: the
\* call itself, below two objects one call per key both have, and below two
\* arrays the match attempts of each subset element, made with the empty
\* path, up to and including the first that succeeds.
RECURSIVE Calls(_, _, _)
Calls(s, t, path) ==
    { [sub |-> s, sup |-> t, path |-> path] }
    \cup (IF IsMap(s) /\ IsMap(t)
          THEN UNION { Calls(Payload(s)[k], Payload(t)[k], Append(path, Name(k)))
                       : k \in DOMAIN Payload(s) \cap DOMAIN Payload(t) }
          ELSE {})
    \cup (IF IsArr(s) /\ IsArr(t)
          THEN UNION { Calls(Payload(s)[i], Payload(t)[j], EmptyPath)
                       : <<i, j>> \in
                           { x \in (1..Len(Payload(s))) \X (1..Len(Payload(t))) :
                               \A h \in 1..(x[2] - 1) :
                                   ~checkSubsetPath(Payload(s)[x[1]], Payload(t)[h],
                                                    EmptyPath).ok } }
          ELSE {})

\* C11 (verdict/diff agreement): the check, and every call of
\* checkSubsetPath it makes, returns true if and only if the difference list
\* it returns is empty.
C11_VerdictIffNoDiffs ==
    checked =>
        /\ isSubset <=> (diffs = <<>>)
        /\ \A c \in Calls(subsetData, supersetData, EmptyPath) :
             LET r == checkSubsetPath(c.sub, c.sup, c.path)
             IN  r.ok <=> (r.diffs = <<>>)

\* A false check of two arrays in which one match attempt failed and
\* another succeeded.
C11_Witness ==
    /\ checked
    /\ ~isSubset
    /\ IsArr(subsetData) /\ IsArr(supersetData)
    /\ \E c1, c2 \in Calls(subsetData, supersetData, EmptyPath) :
         /\ c1 # c2
         /\ [sub |-> subsetData, sup |-> supersetData, path |-> EmptyPath] \notin {c1, c2}
         /\ ~checkSubsetPath(c1.sub, c1.sup, c1.path).ok
         /\ checkSubsetPath(c2.sub, c2.sup, c2.path).ok

----------------------------------------------------------------------------
(* C12 *)

\* No path of ds is equal to or an ancestor of the path of another entry.
NoNestedPaths(ds) ==
    \A i, j \in 1..Len(ds) : i # j => ~IsPrefix(ds[i].Path, ds[j].Path)

\* C12 (point of failure only): in the difference list of the check, and of
\* every call of checkSubsetPath it makes, no path is equal to or an ancestor
\* of another entry's path, and no difference of the check sits at a node
\* where both documents hold objects or both hold arrays, which is where the
\* recursion goes on.
C12_PointOfFailureOnly ==
    checked =>
        /\ \A c \in Calls(subsetData, supersetData, EmptyPath) :
             NoNestedPaths(checkSubsetPath(c.sub, c.sup, c.path).diffs)
        /\ \A n \in Nodes :
             (\/ IsMap(n.sub) /\ IsMap(n.sup)
              \/ IsArr(n.sub) /\ IsArr(n.sup))
                 => n.path \notin DiffPathSet

\* A failed check with a difference two levels down and another one level
\* down, below a root where both documents hold objects.
C12_Witness ==
    /\ checked
    /\ ~isSubset
    /\ IsMap(subsetData) /\ IsMap(supersetData)
    /\ \E i, j \in 1..Len(diffs) :
         /\ Len(diffs[i].Path) = 2
         /\ Len(diffs[j].Path) = 1

----------------------------------------------------------------------------
(* C13 *)

\* C13 (no false-positive marking): a marked line has a difference at its
\* own path or at an ancestor of it, segment by segment; and whenever the
\* canonical string of a difference's path or of a line's path is a textual
\* prefix of the canonical string of a line's path, the first path is a
\* segment-wise prefix of the second, so that a difference at one field never
\* marks the line of a sibling whose name extends that field's name.
C13_NoFalsePositiveMarking ==
    rendered =>
        LET lines == Lines
            paths == DiffPathSet
            linePaths == { lines[i].Path : i \in 1..Len(lines) }
        IN  /\ \A i \in 1..Len(lines) :
                 Marked(i) => \E p \in paths : IsPrefix(p, lines[i].Path)
            /\ \A p \in paths \cup linePaths, q \in linePaths :
                 HasPrefix(PathString(q), PathString(p)) => IsPrefix(p, q)
            /\ \A q \in linePaths :
                 shouldMarkAsDiff(q, { PathString(d) : d \in paths })
                     => \E d \in paths : IsPrefix(d, q)

\* A report with a difference at key "a" of the root and an unmarked line
\* for the sibling key "ab".
C13_Witness ==
    /\ rendered
    /\ << Name(<<"a">>) >> \in DiffPathSet
    /\ LET lines == Lines
       IN  \E i \in 1..Len(lines) :
             /\ lines[i].Path = << Name(<<"a", "b">>) >>
             /\ ~Marked(i)

----------------------------------------------------------------------------
(* C14 *)

\* String t occurs in string s.
Contains(s, t) ==
    \E k \in 0..(Len(s) - Len(t)) : SubSeq(s, k + 1, k + Len(t)) = t

\* What a report line shows of the value at a difference: the quoted key when
\* the path ends with a name, else the element itself, as its literal or as
\* its opening bracket.
TokenOf(d) ==
    IF d.Path # <<>> /\ d.Path[Len(d.Path)][1] = "name"
    THEN Quote(d.Path[Len(d.Path)][2])
    ELSE IF IsMap(d.SubsetValue) THEN <<"{">>
    ELSE IF IsArr(d.SubsetValue) THEN <<"[">>
    ELSE formatPrimitive(d.SubsetValue)

\* C14 (every failure is visible in the report): the report of a failed
\* check has at least one line marked "-", and for every difference of the
\* check some line rendered from the subset document has the difference's
\* path, is marked, and shows the key or the element that failed.
C14_EveryFailureVisible ==
    rendered =>
        LET lines == Lines
        IN  /\ ~isSubset
            /\ diffs # <<>>
            /\ Len(diffOutput) = Len(lines)
            /\ \E i \in 1..Len(diffOutput) : Head(diffOutput[i]) = "-"
            /\ \A n \in 1..Len(diffs) :
                 \E i \in 1..Len(lines) :
                   /\ lines[i].Path = diffs[n].Path
                   /\ Head(diffOutput[i]) = "-"
                   /\ Contains(Tail(diffOutput[i]), TokenOf(diffs[n]))

\* A report of two differences, one at an element of an array below a key
\* and one at a key.
C14_Witness ==
    /\ rendered
    /\ \E m, n \in 1..Len(diffs) :
         /\ Len(diffs[m].Path) = 2
         /\ diffs[m].Path[2][1] = "index"
         /\ Len(diffs[n].Path) = 1
         /\ diffs[n].Path[1][1] = "name"

----------------------------------------------------------------------------
(* C15 *)

\* C15 (transitivity of containment): when the subset document is contained
\* in the superset document, every value that contains the superset document
\* contains the subset document, and every value contained in the subset
\* document is contained in the superset document.
C15_Transitive ==
    (checked /\ isSubset) =>
        \A c \in SupersetValues :
            /\ checkSubsetWithDiffs(supersetData, c).ok
                 => checkSubsetWithDiffs(subsetData, c).ok
            /\ checkSubsetWithDiffs(c, subsetData).ok
                 => checkSubsetWithDiffs(c, supersetData).ok

\* A chain of three different arrays of arrays, each contained in the next,
\* where the middle one has more elements than the last, so that an element
\* is matched at another index.
C15_Witness ==
    /\ checked
    /\ isSubset
    /\ IsArr(subsetData) /\ IsArr(supersetData)
    /\ Len(Payload(subsetData)) > Len(Payload(supersetData))
    /\ \E i \in 1..Len(Payload(subsetData)) :
         /\ IsArr(Payload(subsetData)[i])
         /\ Payload(Payload(subsetData)[i]) # <<>>
    /\ \E c \in SupersetValues :
         /\ c \notin {subsetData, supersetData}
         /\ IsArr(c)
         /\ Payload(c) # <<>>
         /\ checkSubsetWithDiffs(c, subsetData).ok

=============================================================================
